---- MODULE Spec2Model ----
(***************************************************************************)
(* Model of label_app.py: the unit converter, the glyph provider, the text *)
(* fitter, the two label renderers and the Generate handlers of the form.  *)
(*                                                                         *)
(* Strings are sequences of one-character strings, so that str.strip() and *)
(* the f-string that builds the download name are computed, not assumed.   *)
(* Lengths in cm are carried in millimetres (2.5 cm = 25), fractions of H  *)
(* and W in permille (0.06 = 60), so that every int(...) and round(...) of *)
(* the source is an integer computation.                                   *)
(***************************************************************************)
EXTENDS Integers, Sequences, FiniteSets, TLC

VARIABLES
    installed,      \* environment: the font candidates (1..5) that load
    glyph,          \* environment: per pixel size, advance and height of a glyph
    fitArgs,        \* the text and box of the fit_text calls of this behaviour
    fit,            \* the last fit_text call: its start size and its result
    canvas,         \* the last direct call of a renderer: arguments and image
    form,           \* the widget values the last Generate click read
    label_img,      \* st.session_state.label_img
    download_name,  \* st.session_state.download_name
    session_dpi     \* st.session_state.dpi

vars == <<installed, glyph, fitArgs, fit, canvas, form, label_img, download_name, session_dpi>>

(***************************************************************************)
(* Bounds of the model                                                     *)
(***************************************************************************)
MaxStart == 11      \* largest start_px of a direct fit_text call
MaxBox == 2         \* largest max_w / max_h of a direct fit_text call
MaxItems == 6       \* longest item list of a direct render_fiber_label call

(***************************************************************************)
(* Design tokens and program constants                                     *)
(***************************************************************************)
RED == "#E43F6F"
BLUE == "#008DD5"
BORDER_COLOR == "#7a7a7a"
PILL_OUTLINE == "#3a3a3a"

FloorPx == 8            \* the 8 of fit_text's loop, of its last line and of load_font
NumCandidates == 5      \* length of load_font's candidates list
ref_slots == 6

DPIS == {300, 200, 150}
FONT_PTS == {8, 9, 10, 11, 12}

None == [kind |-> "None"]

\* st.session_state.setdefault(...) of the three session keys.
InitSession ==
    /\ label_img = None
    /\ download_name = <<"l", "a", "b", "e", "l", ".", "p", "n", "g">>
    /\ session_dpi = 300

Max(a, b) == IF a >= b THEN a ELSE b
Min(a, b) == IF a <= b THEN a ELSE b

(***************************************************************************)
(* Python's arithmetic                                                     *)
(***************************************************************************)
\* round(num / den) for num >= 0, den > 0: Python 3 rounds halves to even.
PyRound(num, den) ==
    LET q == num \div den
        r == num % den
    IN  IF 2 * r < den THEN q
        ELSE IF 2 * r > den THEN q + 1
        ELSE IF q % 2 = 0 THEN q ELSE q + 1

\* int(f * x) for a fraction f = permille / 1000 and x >= 0: truncation.
IntFrac(permille, x) == (permille * x) \div 1000

\* A converter that takes the inch for 2.5 cm.
cm_to_px_short_inch(mm, dpi) == PyRound(mm * dpi, 25)

\* cm_to_px(cm, dpi) with cm = mm / 10: round((mm / 25.4) * dpi).
cm_to_px(mm, dpi) == PyRound(mm * dpi * 5, 127)

pt_to_px(pt, dpi) == PyRound(pt * dpi, 72)

(***************************************************************************)
(* Glyph provider                                                          *)
(***************************************************************************)
\* max(8, int(size_px)) of the truetype call.
clamp_size(size_px) == Max(FloorPx, size_px)

\* The candidates loop: the first candidate that loads, at the clamped size;
\* ImageFont.load_default(), which takes no size, when none loads.
RECURSIVE try_candidates(_, _)
try_candidates(p, size_px) ==
    IF p > NumCandidates THEN [face |-> 0, px |-> 0]
    ELSE IF p \in installed THEN [face |-> p, px |-> clamp_size(size_px)]
    ELSE try_candidates(p + 1, size_px)

load_font(size_px) == try_candidates(1, size_px)

\* Environment: the metrics of the built-in bitmap font, whatever size was asked.
DefaultGlyph == [adv |-> 6, ht |-> 11]

\* draw.textbbox((0, 0), text, font=font), as (r - l, b - t): a single line of
\* Len(text) glyphs; the empty string has an empty box.
textbbox(text, font) ==
    LET g == IF font.face = 0 THEN DefaultGlyph ELSE glyph[font.px]
    IN  [w |-> Len(text) * g.adv, h |-> IF Len(text) = 0 THEN 0 ELSE g.ht]

(***************************************************************************)
(* Text fitter                                                             *)
(***************************************************************************)
\* Faulty variants of the fitter: a loop that runs one size below the floor, a
\* test that forgets the height, a step of two, a floor font one size off.
loop_cond_below_floor(size) == size >= FloorPx - 1
fits_width_only(bb, max_w, max_h) == bb.w <= max_w
next_size_by_two(size) == size - 2
floor_font_above == [size |-> FloorPx + 1, font |-> load_font(FloorPx + 1)]

\* while size >= 8
loop_cond(size) == size >= FloorPx

\* (r - l) <= max_w and (b - t) <= max_h
fits(bb, max_w, max_h) == bb.w <= max_w /\ bb.h <= max_h

\* size -= 1
next_size(size) == size - 1

\* return load_font(8)
floor_font == [size |-> FloorPx, font |-> load_font(FloorPx)]

\* The loop of fit_text from `size` on; `tried` lists the sizes measured so far.
\* The result names the font returned, the size it was asked at, the sizes
\* measured in order and whether the loop ran out (fell through to the floor).
RECURSIVE fit_loop(_, _, _, _, _)
fit_loop(text, max_w, max_h, size, tried) ==
    IF loop_cond(size)
    THEN LET font == load_font(size)
             bb == textbbox(text, font)
         IN  IF fits(bb, max_w, max_h)
             THEN [font |-> font, size |-> size, tried |-> Append(tried, size),
                   fell |-> FALSE]
             ELSE fit_loop(text, max_w, max_h, next_size(size), Append(tried, size))
    ELSE [font |-> floor_font.font, size |-> floor_font.size, tried |-> tried,
          fell |-> TRUE]

fit_text(text, max_w, max_h, start_px) == fit_loop(text, max_w, max_h, start_px, <<>>)

(***************************************************************************)
(* Collaborators and layout helpers                                        *)
(***************************************************************************)
\* make_qr: the payload encoded and resized to target_px x target_px.
make_qr(data, target_px) == [data |-> data, side |-> target_px]

pill_radius(h) == Max(8, IntFrac(460, h))

\* The drawing calls of fit_text followed by the draw.text of its caller: one
\* textbbox per size measured, in order.
text_calls(text, max_w, max_h, start_px, xy) ==
    LET res == fit_text(text, max_w, max_h, start_px)
    IN  <<[op |-> "fit_text", text |-> text, max_w |-> max_w, max_h |-> max_h,
           start_px |-> start_px]>>
        \o [k \in 1..Len(res.tried) |->
               [op |-> "textbbox", text |-> text, size |-> res.tried[k]]]
        \o <<[op |-> "text", xy |-> xy, text |-> text, font |-> res.font,
              fill |-> "black", anchor |-> "mm"]>>

(***************************************************************************)
(* render_copper_label                                                     *)
(***************************************************************************)
copper_geom(dpi) ==
    LET W == cm_to_px(25, dpi)
        H == cm_to_px(35, dpi)
        outer == IntFrac(60, H)
        gap == IntFrac(45, H)
        bar_h == IntFrac(220, H)
        qr_zone_h == (H - 2 * outer) - gap - bar_h
        qr_side == Min(W - 2 * outer, qr_zone_h)
        bar_x0 == IntFrac(120, W)
        bar_x1 == W - IntFrac(120, W)
        bar_y1 == H - outer
        bar_y0 == bar_y1 - bar_h
    IN  [W |-> W, H |-> H, outer |-> outer, gap |-> gap, bar_h |-> bar_h,
         qr_zone_h |-> qr_zone_h, qr_side |-> qr_side,
         qr_x |-> outer + ((W - 2 * outer) - qr_side) \div 2,
         qr_y |-> outer + (qr_zone_h - qr_side) \div 2,
         bar_x0 |-> bar_x0, bar_x1 |-> bar_x1, bar_y0 |-> bar_y0, bar_y1 |-> bar_y1,
         max_w |-> (bar_x1 - bar_x0) - IntFrac(180, W),
         max_h |-> bar_h - IntFrac(250, bar_h)]

render_copper_label(link_name, qr_content, bar_color, dpi, font_pt) ==
    LET g == copper_geom(dpi)
    IN  [W |-> g.W, H |-> g.H, mode |-> "RGB",
         log |->
            <<[op |-> "new", size |-> <<g.W, g.H>>, color |-> "white"],
              [op |-> "alpha_composite", qr |-> make_qr(qr_content, g.qr_side),
               xy |-> <<g.qr_x, g.qr_y>>],
              [op |-> "rounded_rectangle", role |-> "bar",
               x0 |-> g.bar_x0, y0 |-> g.bar_y0, x1 |-> g.bar_x1, y1 |-> g.bar_y1,
               radius |-> pill_radius(g.bar_h), fill |-> bar_color]>>
            \o text_calls(link_name, g.max_w, g.max_h, pt_to_px(font_pt, dpi),
                          <<(g.bar_x0 + g.bar_x1) \div 2, (g.bar_y0 + g.bar_y1) \div 2>>)]

(***************************************************************************)
(* render_fiber_label                                                      *)
(***************************************************************************)
\* A stack that starts at the top of the content area instead of being centred.
start_y_top(cy0, content_h, stack_h) == cy0

\* cy0 + max(0, (content_h - stack_h) // 2)
start_y(cy0, content_h, stack_h) == cy0 + Max(0, (content_h - stack_h) \div 2)

\* The locals of render_fiber_label for an item list of length len_items.
fiber_geom(dpi, len_items) ==
    LET W == cm_to_px(50, dpi)
        H == cm_to_px(35, dpi)
        stroke == Max(2, IntFrac(12, H))
        inner_stroke == Max(2, IntFrac(10, H))
        outer == IntFrac(60, H)
        gap_main == IntFrac(45, H)
        gap_rect == IntFrac(40, H)
        cx0 == outer + stroke
        cy0 == outer + stroke
        cx1 == W - outer - stroke
        cy1 == H - outer - stroke
        content_h == cy1 - cy0
        qr_frame_pad == IntFrac(15, H)
        qr_side == content_h
        qr_frame_x1 == cx0 + qr_side
        qr_target == qr_side - 2 * qr_frame_pad - inner_stroke
        inset == IntFrac(20, W)
        right_x0 == qr_frame_x1 + gap_main + inset
        right_x1 == cx1 - inset
        right_w == Max(1, right_x1 - right_x0)
        n == Max(1, len_items)
        rect_h_ref == (content_h - gap_rect * (ref_slots - 1)) \div ref_slots
        rect_h == Max(rect_h_ref, IntFrac(120, H))
        stack_h == n * rect_h + (n - 1) * gap_rect
    IN  [W |-> W, H |-> H, stroke |-> stroke, inner_stroke |-> inner_stroke,
         outer |-> outer, gap_main |-> gap_main, gap_rect |-> gap_rect,
         outer_radius |-> IntFrac(100, H),
         cx0 |-> cx0, cy0 |-> cy0, cx1 |-> cx1, cy1 |-> cy1,
         content_w |-> cx1 - cx0, content_h |-> content_h,
         qr_frame_radius |-> IntFrac(90, H), qr_side |-> qr_side,
         qr_frame_x1 |-> qr_frame_x1, qr_target |-> qr_target,
         qr_x |-> cx0 + (qr_side - qr_target) \div 2,
         qr_y |-> cy0 + (content_h - qr_target) \div 2,
         right_x0 |-> right_x0, right_x1 |-> right_x1, right_w |-> right_w,
         n |-> n, rect_h_ref |-> rect_h_ref, rect_h |-> rect_h, stack_h |-> stack_h,
         start_y |-> start_y(cy0, content_h, stack_h),
         pill_width |-> Max(2, IntFrac(6, H)),
         max_w |-> right_w - IntFrac(180, right_w),
         max_h |-> rect_h - IntFrac(300, rect_h)]

\* One pass of the loop over enumerate(items), i counted from 0.
fiber_slot(g, i, txt, col, start_px) ==
    LET y0 == g.start_y + i * (g.rect_h + g.gap_rect)
        y1 == y0 + g.rect_h
    IN  <<[op |-> "rounded_rectangle", role |-> "pill",
           x0 |-> g.right_x0, y0 |-> y0, x1 |-> g.right_x1, y1 |-> y1,
           radius |-> pill_radius(g.rect_h), fill |-> col,
           outline |-> PILL_OUTLINE, width |-> g.pill_width]>>
        \o text_calls(txt, g.max_w, g.max_h, start_px,
                      <<(g.right_x0 + g.right_x1) \div 2, (y0 + y1) \div 2>>)

RECURSIVE fiber_slots(_, _, _, _)
fiber_slots(g, items, k, start_px) ==
    IF k > Len(items) THEN <<>>
    ELSE fiber_slot(g, k - 1, items[k][1], items[k][2], start_px)
         \o fiber_slots(g, items, k + 1, start_px)

render_fiber_label(qr_content, items, dpi, font_pt) ==
    LET g == fiber_geom(dpi, Len(items))
    IN  [W |-> g.W, H |-> g.H, mode |-> "RGB",
         log |->
            <<[op |-> "new", size |-> <<g.W, g.H>>, color |-> "white"],
              [op |-> "rounded_rectangle", role |-> "border",
               x0 |-> g.stroke, y0 |-> g.stroke, x1 |-> g.W - g.stroke,
               y1 |-> g.H - g.stroke, radius |-> g.outer_radius, fill |-> "white",
               outline |-> BORDER_COLOR, width |-> g.stroke],
              [op |-> "rounded_rectangle", role |-> "qr_frame",
               x0 |-> g.cx0, y0 |-> g.cy0, x1 |-> g.qr_frame_x1, y1 |-> g.cy1,
               radius |-> g.qr_frame_radius, fill |-> "white",
               outline |-> BORDER_COLOR, width |-> g.inner_stroke],
              [op |-> "alpha_composite", qr |-> make_qr(qr_content, g.qr_target),
               xy |-> <<g.qr_x, g.qr_y>>]>>
            \o fiber_slots(g, items, 1, pt_to_px(font_pt, dpi))]

(***************************************************************************)
(* Direct calls of the renderers, with any item list                       *)
(***************************************************************************)
\* Environment: a TrueType face whose glyphs are 0.6 em wide and 0.73 em high.
MaxRenderPx == pt_to_px(12, 300)
RenderGlyph == [s \in FloorPx..MaxRenderPx |-> [adv |-> IntFrac(600, s), ht |-> IntFrac(730, s)]]

sample_qr == "Line 1\nLine 2\nLine 3\nLine 4\nLine 5\nLine 6"
QrContents == {sample_qr}

Blank == <<>>
Text_2L3 == <<"2", "L", "3">>
Text_2L98_1 == <<"2", "L", "9", "8", ".", "1">>
Text_Long == <<"2", "L", "1", "0", "0", ".", "1", "/", "D", "1", "2", "-", "4", "3", "/", "A">>

ItemChoices == {<<Blank, RED>>, <<Text_2L98_1, BLUE>>}

RECURSIVE SeqsUpTo(_, _)
SeqsUpTo(S, k) ==
    IF k = 0 THEN {<<>>}
    ELSE LET shorter == SeqsUpTo(S, k - 1)
         IN  shorter \cup {Append(q, x) : q \in {r \in shorter : Len(r) = k - 1}, x \in S}

InitRender ==
    /\ installed \in {{}, {1}}
    /\ glyph = RenderGlyph
    /\ fitArgs = None
    /\ fit = None
    /\ canvas = None
    /\ form = None
    /\ InitSession

\* A renderer reads nothing of an earlier call, so the state after a call is
\* the same whatever preceded it: a fiber call is taken once per behaviour,
\* copper calls may follow each other.
RenderCopperCall ==
    \E link_name \in {Blank, Text_2L3, Text_Long}, bar_color \in {RED, BLUE},
       qr_content \in QrContents, dpi \in DPIS, font_pt \in FONT_PTS :
        /\ canvas.kind \in {"None", "copper"}
        /\ canvas' = [kind |-> "copper", link_name |-> link_name, dpi |-> dpi,
                      font_pt |-> font_pt,
                      img |-> render_copper_label(link_name, qr_content, bar_color, dpi, font_pt)]
        /\ UNCHANGED <<installed, glyph, fitArgs, fit, form, label_img, download_name, session_dpi>>

RenderFiberCall ==
    \E items \in SeqsUpTo(ItemChoices, MaxItems), qr_content \in QrContents,
       dpi \in DPIS, font_pt \in FONT_PTS :
        /\ canvas = None
        /\ canvas' = [kind |-> "fiber", items |-> items, dpi |-> dpi, font_pt |-> font_pt,
                      geom |-> fiber_geom(dpi, Len(items)),
                      img |-> render_fiber_label(qr_content, items, dpi, font_pt)]
        /\ UNCHANGED <<installed, glyph, fitArgs, fit, form, label_img, download_name, session_dpi>>

NextRender == RenderCopperCall \/ RenderFiberCall

SpecRender == InitRender /\ [][NextRender]_vars

(***************************************************************************)
(* The form: the Generate button of the copper and of the fiber branch     *)
(***************************************************************************)
IsSpace(c) == c \in {" ", "\t", "\n"}

\* str.strip(): the text without its leading and trailing whitespace.
strip(s) ==
    LET kept == {i \in 1..Len(s) : ~IsSpace(s[i])}
    IN  IF kept = {} THEN <<>>
        ELSE SubSeq(s, CHOOSE i \in kept : \A j \in kept : i <= j,
                       CHOOSE i \in kept : \A j \in kept : j <= i)

PngSuffix == <<".", "p", "n", "g">>
CopperFallback == <<"l", "a", "b", "e", "l">>
FiberFallback == <<"f", "i", "b", "e", "r", "_", "l", "a", "b", "e", "l">>

\* (link_name.strip() or 'label')
copper_base(link_name) == IF strip(link_name) # <<>> THEN strip(link_name) ELSE CopperFallback

\* items[0][0] if items and items[0][0] else "fiber_label"
fiber_base(items) ==
    IF Len(items) > 0 /\ items[1][1] # <<>> THEN items[1][1] ELSE FiberFallback

n_boxes(label_type) == IF label_type = "Fiber (1 unit)" THEN 3 ELSE 6

default_cols(n) ==
    IF n = 6 THEN <<RED, RED, BLUE, BLUE, RED, RED>> ELSE <<RED, RED, BLUE>>

\* What the user may have typed in a text input, and the colour rows picked.
RawTexts == {<<" ">>, <<" ", "2", "L", "3">>, Text_2L98_1}
ColourRows(n) == {default_cols(n), [i \in 1..n |-> BLUE]}

InitApp ==
    /\ installed = {1}
    /\ glyph = RenderGlyph
    /\ fitArgs = None
    /\ fit = None
    /\ canvas = None
    /\ form = None
    /\ InitSession

\* The Generate handlers overwrite the three session keys and read none of
\* them, so the state after a click is the same whatever preceded it: the
\* fiber click is taken once per behaviour, copper clicks may follow each other.
GenerateCopper ==
    \E link_name \in RawTexts, color_choice \in {"Red", "Blue"},
       qr_content \in QrContents, dpi \in DPIS, font_pt \in FONT_PTS :
        LET bar_color == IF color_choice = "Red" THEN RED ELSE BLUE
        IN  /\ form.kind \in {"None", "Copper"}
            /\ form' = [kind |-> "Copper", texts |-> <<link_name>>, dpi |-> dpi,
                        font_pt |-> font_pt]
            /\ label_img' = render_copper_label(strip(link_name), qr_content, bar_color,
                                                dpi, font_pt)
            /\ download_name' = copper_base(link_name) \o PngSuffix
            /\ session_dpi' = dpi
            /\ UNCHANGED <<installed, glyph, fitArgs, fit, canvas>>

GenerateFiber ==
    \E label_type \in {"Fiber (1 unit)", "Fiber (2 unit)"} :
        \E texts \in [1..n_boxes(label_type) -> RawTexts],
           cols \in ColourRows(n_boxes(label_type)),
           qr_content \in QrContents, dpi \in DPIS, font_pt \in FONT_PTS :
            LET items == [i \in 1..n_boxes(label_type) |-> <<strip(texts[i]), cols[i]>>]
            IN  /\ form = None
                /\ form' = [kind |-> label_type, texts |-> texts, dpi |-> dpi,
                            font_pt |-> font_pt]
                /\ label_img' = render_fiber_label(qr_content, items, dpi, font_pt)
                /\ download_name' = fiber_base(items) \o PngSuffix
                /\ session_dpi' = dpi
                /\ UNCHANGED <<installed, glyph, fitArgs, fit, canvas>>

Next == GenerateCopper \/ GenerateFiber

Spec == InitApp /\ [][Next]_vars

(***************************************************************************)
(* Direct calls of fit_text: one text and one box per behaviour, any start *)
(***************************************************************************)
InstalledChoices == {{}, {2}, {1, 5}}
GlyphChoices == {[adv |-> 1, ht |-> 1], [adv |-> 2, ht |-> 1], [adv |-> 1, ht |-> 2]}
FitTexts == {<<>>, <<"a">>, <<"a", "b">>}
FitSizes == FloorPx..MaxStart
StartSizes == 0..MaxStart

InitFit ==
    /\ installed \in InstalledChoices
    /\ glyph \in [FitSizes -> GlyphChoices]
    /\ fitArgs \in [text : FitTexts, max_w : 1..MaxBox, max_h : 1..MaxBox]
    /\ fit = None
    /\ canvas = None
    /\ form = None
    /\ InitSession

FitTextCall ==
    \E start_px \in StartSizes :
        /\ fit' = [kind |-> "fit_text", start_px |-> start_px,
                   res |-> fit_text(fitArgs.text, fitArgs.max_w, fitArgs.max_h, start_px)]
        /\ UNCHANGED <<installed, glyph, fitArgs, canvas, form, label_img, download_name, session_dpi>>

NextFit == FitTextCall

SpecFit == InitFit /\ [][NextFit]_vars

(***************************************************************************)
(* Claims about fit_text (checked under SpecFit)                           *)
(***************************************************************************)
FitCalled == fit.kind = "fit_text"

\* The text of this behaviour, measured in the font load_font gives at size s,
\* is inside the box of this behaviour.
InBoxAt(s) ==
    LET bb == textbbox(fitArgs.text, load_font(s))
    IN  bb.w <= fitArgs.max_w /\ bb.h <= fitArgs.max_h

FittingSizes(start_px) == {s \in FloorPx..start_px : InBoxAt(s)}

SetMax(S) == CHOOSE m \in S : \A x \in S : x <= m

IsDescending(seq) == \A i, j \in 1..Len(seq) : i < j => seq[i] > seq[j]

\* C2: fit_text returns the font of the largest size s, 8 <= s <= start_px, at
\* which the measured width is <= max_w and the measured height is <= max_h;
\* when no size of that range fits it returns the 8 px font, without an error.
C2_LargestFittingSize ==
    FitCalled =>
        LET c == FittingSizes(fit.start_px)
        IN  IF c # {}
            THEN /\ fit.res.size = SetMax(c)
                 /\ fit.res.font = load_font(SetMax(c))
                 /\ ~fit.res.fell
            ELSE /\ fit.res.size = FloorPx
                 /\ fit.res.font = load_font(FloorPx)
                 /\ fit.res.fell

\* C2 witness: a call that had to shrink and stopped above the floor, at a size
\* that fits, and on a text that overflows at the floor size.
C2_Witness ==
    /\ FitCalled
    /\ ~fit.res.fell
    /\ FloorPx < fit.res.size
    /\ fit.res.size < fit.start_px
    /\ ~InBoxAt(FloorPx)

\* C3 as stated: for every positive start_px, also below the floor, the pixel
\* size of the font returned is <= start_px and >= 8.
C3_AsStated ==
    (FitCalled /\ fit.start_px > 0 /\ fit.res.font.face # 0) =>
        (FloorPx <= fit.res.font.px /\ fit.res.font.px <= fit.start_px)

\* C3 amended: the size of the font returned is >= 8; it is <= start_px when
\* start_px >= 8, and it is 8, above start_px, when start_px < 8.  A font loaded
\* from a candidate has exactly the size the fitter settled on.
C3_SizeBounds ==
    FitCalled =>
        /\ fit.res.size >= FloorPx
        /\ (fit.start_px >= FloorPx => fit.res.size <= fit.start_px)
        /\ (fit.start_px < FloorPx => fit.res.size = FloorPx)
        /\ (fit.res.font.face # 0 => fit.res.font.px = fit.res.size)

\* C3 witness: a positive start below the floor, answered with the 8 px font.
C3_Witness ==
    /\ FitCalled
    /\ 0 < fit.start_px
    /\ fit.start_px < FloorPx
    /\ fit.res.font.face # 0
    /\ fit.res.font.px = FloorPx

\* C6: fit_text terminates; the sizes it measures are strictly descending, so
\* each is tried at most once, and for start_px >= 8 there are at most
\* start_px - 8 + 1 iterations.
C6_BoundedDescent ==
    FitCalled =>
        /\ IsDescending(fit.res.tried)
        /\ (fit.start_px >= FloorPx => Len(fit.res.tried) <= fit.start_px - FloorPx + 1)
        /\ (fit.start_px < FloorPx => Len(fit.res.tried) = 0)

\* C6 witness: a call that used every iteration: nothing fitted from a start
\* well above the floor.
C6_Witness ==
    /\ FitCalled
    /\ fit.start_px >= FloorPx + 2
    /\ fit.res.fell
    /\ Len(fit.res.tried) = fit.start_px - FloorPx + 1

\* C7: for the same text and box, a call started at a larger size never ends
\* with a smaller font than a call started at a smaller size, whatever sizes
\* fit (any two calls of a behaviour follow each other in some behaviour).
C7_StartMonotone ==
    [][(FitCalled /\ fit'.kind = "fit_text" /\ fit.start_px <= fit'.start_px)
          => fit.res.size <= fit'.res.size]_vars

\* C7 witness: metrics that are not monotone in the size (a size that does not
\* fit below one that does) and a call that stopped at the fitting size.
C7_Witness ==
    /\ FitCalled
    /\ ~fit.res.fell
    /\ fit.res.size > FloorPx
    /\ fit.res.size < fit.start_px
    /\ ~InBoxAt(fit.res.size - 1)

(***************************************************************************)
(* Claims about the renderers (checked under SpecRender)                   *)
(***************************************************************************)
Abs(x) == IF x >= 0 THEN x ELSE -x

IsPill(e) == e.op = "rounded_rectangle" /\ e.role = "pill"
IsTextCall(e) == e.op \in {"fit_text", "textbbox", "text"}

Pills(img) == SelectSeq(img.log, IsPill)

FiberCalled(len) == canvas.kind = "fiber" /\ Len(canvas.items) = len

\* C1: at every supported dpi the slots drawn for a 3-item list are as high as
\* the slots of a 6-item list at that dpi (within 1 px), and the 3-slot stack
\* is centred in the content height: the margin above the first slot and the
\* margin below the last one differ by at most 1 px.
C1_ReferenceGrid ==
    FiberCalled(3) =>
        LET pills == Pills(canvas.img)
            six == fiber_geom(canvas.dpi, ref_slots)
            above == pills[1].y0 - canvas.geom.cy0
            below == canvas.geom.cy1 - pills[3].y1
        IN  /\ Len(pills) = 3
            /\ \A k \in 1..3 : Abs((pills[k].y1 - pills[k].y0) - six.rect_h) <= 1
            /\ above >= 0
            /\ below >= 0
            /\ Abs(above - below) <= 1

\* C1 witness: a 3-slot label whose leftover height is odd, so that the two
\* margins differ by exactly one pixel.
C1_Witness ==
    /\ FiberCalled(3)
    /\ Len(Pills(canvas.img)) = 3
    /\ (canvas.geom.cy1 - Pills(canvas.img)[3].y1)
           - (Pills(canvas.img)[1].y0 - canvas.geom.cy0) = 1

\* C4 as stated: an item list of length 2 or 4, which matches neither the
\* 3-slot nor the 6-slot template, is rejected before any drawing call.
C4_AsStated ==
    (canvas.kind = "fiber" /\ Len(canvas.items) \in {2, 4}) => canvas.img.log = <<>>

\* C5 as stated: in both renderers a slot with the empty text has its fill
\* drawn and causes no fit_text call, no textbbox and no draw.text.
C5_AsStated ==
    canvas.kind \in {"copper", "fiber"} =>
        \A k \in 1..Len(canvas.img.log) :
            IsTextCall(canvas.img.log[k]) => canvas.img.log[k].text # Blank

\* C9: cm_to_px is non-decreasing in dpi over the supported dpi values for each
\* length in use, and the copper canvas at 300 dpi is exactly 295 x 413.
C9_Conversion ==
    [][/\ \A mm \in {25, 35, 50} : \A d1, d2 \in DPIS :
              d1 <= d2 => cm_to_px(mm, d1) <= cm_to_px(mm, d2)
       /\ (canvas'.kind = "copper" /\ canvas'.dpi = 300) =>
              /\ canvas'.img.W = 295
              /\ canvas'.img.H = 413
              /\ canvas'.img.log[1].size = <<295, 413>>
       /\ (canvas.kind = "copper" /\ canvas'.kind = "copper" /\ canvas.dpi <= canvas'.dpi) =>
              /\ canvas.img.W <= canvas'.img.W
              /\ canvas.img.H <= canvas'.img.H]_vars

\* C9 witness: a copper label rendered at 300 dpi.
C9_Witness ==
    /\ canvas.kind = "copper"
    /\ canvas.dpi = 300
    /\ canvas.img.log[1] = [op |-> "new", size |-> <<295, 413>>, color |-> "white"]

\* C10 as stated: for 3 and for 6 slots, at every supported dpi, every slot lies
\* inside the content height, consecutive slots are gap_rect apart, and the
\* stack is not higher than the content height.
C10_AsStated ==
    (canvas.kind = "fiber" /\ Len(canvas.items) \in {3, 6}) =>
        LET pills == Pills(canvas.img)
            g == canvas.geom
        IN  /\ \A k \in 1..Len(pills) : g.cy0 <= pills[k].y0 /\ pills[k].y1 <= g.cy1
            /\ \A k \in 1..(Len(pills) - 1) : pills[k + 1].y0 - pills[k].y1 = g.gap_rect
            /\ g.stack_h <= g.content_h

(***************************************************************************)
(* Claim about the Generate handlers (checked under Spec)                  *)
(***************************************************************************)
\* C8 as stated: after a Generate click the download name comes from the first
\* non-blank identifier among the slots in order, and is the fallback name
\* only when every identifier is blank.
C8_AsStated ==
    form.kind # "None" =>
        LET ids == [k \in 1..Len(form.texts) |-> strip(form.texts[k])]
            filled == {k \in 1..Len(ids) : ids[k] # <<>>}
            fallback == IF form.kind = "Copper" THEN CopperFallback ELSE FiberFallback
        IN  download_name =
                (IF filled = {} THEN fallback
                 ELSE ids[CHOOSE k \in filled : \A j \in filled : k <= j]) \o PngSuffix

====
